---- MODULE Spec2Model ----
(***************************************************************************)
(* routes4life API: the password-reset flow (reset code -> session token   *)
(* -> new password) over the shared Django cache, the store of places with *)
(* their ratings and secondary images, and the place filter engine.        *)
(*                                                                         *)
(* Strings are sequences of one-character strings, so that formats,        *)
(* normalisation and key construction are computed as the code computes    *)
(* them.  Python's None is the one-element sequence <<"None">>, which no   *)
(* character string equals.  Time is counted in minutes.                   *)
(***************************************************************************)
EXTENDS Integers, Sequences, FiniteSets, TLC

VARIABLES
    cache,   \* django.core.cache: key -> [val, left] (left = minutes to live)
    users,   \* User table: stored email -> stored password hash
    proc,    \* the requests in flight: worker -> position and locals
    nreq,    \* number of requests that passed validation so far
    hist,    \* history: per key, the secret most recently stored under it
    last,    \* history: the request that completed most recently
    places,  \* Place table: id -> row, NoPlace for an id without a row
    ratings, \* PlaceRating table: a set of rows
    images,  \* PlaceImage table: place id -> ids of its secondary images
    seqs,    \* the last id the database gave out, per table
    nops,    \* number of requests that changed the store of places so far
    resp,    \* the latest request on places or users and its response
    profiles \* User table: stored email -> the other columns of the row

vars == <<cache, users, proc, nreq, hist, last>>
pvars == <<places, ratings, images, seqs, nops, resp, profiles>>

(***************************************************************************)
(* Bounds of the model.                                                    *)
(***************************************************************************)
MaxRequests == 3
NumWorkers == 2
MinutesPerTick == 2

Procs == 1..NumWorkers

(***************************************************************************)
(* Characters and strings.                                                 *)
(***************************************************************************)
None == <<"None">>

UpperSeq == <<"A","B","C","D","E","F","G","H","I","J","K","L","M",
              "N","O","P","Q","R","S","T","U","V","W","X","Y","Z">>
LowerSeq == <<"a","b","c","d","e","f","g","h","i","j","k","l","m",
              "n","o","p","q","r","s","t","u","v","w","x","y","z">>

Range(s) == {s[i] : i \in 1..Len(s)}

digits == {"0","1","2","3","4","5","6","7","8","9"}
ascii_letters == Range(LowerSeq) \cup Range(UpperSeq)
\* the character class of validators.py line 69; its grave accent cannot be
\* written inside a TLA+ string and occurs in no password of the model
special_characters ==
    {"(", ")", "[", "]", "{", "}", "|", "\\", "~", "!", "@", "#", "$",
     "%", "^", "&", "*", "_", "-", "+", "=", ";", ":", "'", "\"", ",", "<",
     ">", ".", "?"}
whitespace == {" ", "\t", "\n", "\r", "\f"}

\* re.findall(class, s) is non-empty
Contains(s, class) == \E i \in 1..Len(s) : s[i] \in class
AllIn(s, class) == \A i \in 1..Len(s) : s[i] \in class

\* str.lower() on one character
LowerCh(ch) ==
    IF \E i \in 1..Len(UpperSeq) : UpperSeq[i] = ch
    THEN LowerSeq[CHOOSE i \in 1..Len(UpperSeq) : UpperSeq[i] = ch]
    ELSE ch

(***************************************************************************)
(* Program constants.                                                      *)
(***************************************************************************)
CodeTTL == 2
TokenTTL == 10
CodeLen == 4
TokenLen == 32
MinPasswordLen == 8
MaxPasswordLen == 40

(***************************************************************************)
(* Pure functions of the code.                                             *)
(***************************************************************************)
\* validators.validate_password: TRUE iff no ValidationError is raised
validate_password(password) ==
    /\ ~(Len(password) < MinPasswordLen \/ Len(password) > MaxPasswordLen)
    /\ Contains(password, Range(UpperSeq))
    /\ Contains(password, Range(LowerSeq))
    /\ Contains(password, digits)
    /\ Contains(password, special_characters)
    /\ ~Contains(password, whitespace)

\* BaseUserManager.normalize_email: lower-case the part after the last "@"
normalize_email(email) ==
    IF ~Contains(email, {"@"}) THEN email
    ELSE LET at == CHOOSE i \in 1..Len(email) :
                       /\ email[i] = "@"
                       /\ \A j \in (i+1)..Len(email) : email[j] # "@"
         IN  [i \in 1..Len(email) |->
                 IF i > at THEN LowerCh(email[i]) ELSE email[i]]

\* key = email + "__code"
code_key(email) == email \o <<"_","_","c","o","d","e">>

\* mutant: one key for the tokens of every email
token_key_shared(email) == <<"_","_","t","o","k","e","n">>

\* key = email + "__token"
token_key(email) == email \o <<"_","_","t","o","k","e","n">>

\* len(code) != 4 or not all digits  (negated: the code is well formed)
code_format_ok(code) == ~(Len(code) # CodeLen \/ ~AllIn(code, digits))

\* len(token) != 32 or not all alphanumeric  (negated)
token_format_ok(token) ==
    ~(Len(token) # TokenLen \/ ~AllIn(token, digits \cup ascii_letters))

\* set_password / check_password: the stored value is a hash of the password
make_password(password) == <<"#">> \o password
check_password(password, encoded) == encoded = make_password(password)

(***************************************************************************)
(* Inputs of the model.                                                    *)
(***************************************************************************)
EmailA == <<"a","@","x">>          \* registered, normalised
EmailAUp == <<"a","@","X">>        \* the same mailbox, upper-case domain
EmailB == <<"b","@","x">>          \* registered, normalised
EmailC == <<"c","@","x">>          \* not registered
RequestEmails == {EmailA, EmailAUp, EmailB, EmailC}

\* random.choices(string.digits, k=4): two of the 10^4 outcomes
GenCodes == {<<"0","0","0","0">>, <<"1","2","3","4">>}
CodeInputs == GenCodes \cup {<<"1","2","x","4">>}

\* random.choices(string.digits + string.ascii_letters, k=32): two outcomes
GenTokens == {[i \in 1..TokenLen |-> "a"], [i \in 1..TokenLen |-> "7"]}
TokenInputs == GenTokens \cup {<<"a","7">>}

\* phone_number: "default": "+000000000"
DefaultPhone == <<"+","0","0","0","0","0","0","0","0","0">>

OldPassword == <<"O","l","d","!","p","w","d","0">>
NewPassword == <<"N","e","w","!","p","w","d","1">>
OtherPassword == <<"N","e","w","!","p","w","d","2">>
WeakPassword == <<"p","w">>
\* <<new_password, confirmation_password>>
PasswordInputs == {<<NewPassword, NewPassword>>, <<NewPassword, OtherPassword>>,
                   <<WeakPassword, WeakPassword>>}

Keys == {code_key(e) : e \in RequestEmails} \cup {token_key(e) : e \in RequestEmails}

(***************************************************************************)
(* The cache (django.core.cache), as the code uses it.                     *)
(***************************************************************************)
NoEntry == [val |-> None, left |-> 0]

\* cache.get(key, None)
CacheGet(c, key) == c[key].val

\* mutant: cache.set, which replaces a live entry
CacheAdd_overwrite(c, key, value, timeout) ==
    [c EXCEPT ![key] = [val |-> value, left |-> timeout]]

\* cache.add(key, value, timeout): store only if the key has no live entry
CacheAdd(c, key, value, timeout) ==
    IF c[key] = NoEntry THEN [c EXCEPT ![key] = [val |-> value, left |-> timeout]]
    ELSE c

\* mutant: the entry is left in place
CacheDelete_kept(c, key) == c

\* cache.delete(key)
CacheDelete(c, key) == [c EXCEPT ![key] = NoEntry]

(***************************************************************************)
(* The store of places.  Coordinates are counted in hundredths of a        *)
(* degree, ratings in hundredths (DecimalField(3, 2)), distances in        *)
(* metres.                                                                 *)
(***************************************************************************)
\* validators.validate_latitude: TRUE iff no ValidationError is raised
validate_latitude(value) == ~(value < -9000 \/ value > 9000)

\* validators.validate_longitude
validate_longitude(value) == ~(value < -18000 \/ value > 18000)

\* validators.validate_rating
validate_rating(value) == ~(value < 0 \/ value > 500)

\* validators.validate_distance, on a distance in km
validate_distance(value) == ~(value <= 0 \/ value >= 40076)

\* validators.validate_place_ordering
validate_place_ordering(value) ==
    value \in {"distance", "-distance", "rating", "-rating"}

allowed_categories ==
    {"barsAndPubs", "hookahBars", "cafesAndRestaurants", "coffeeHouses",
     "pastryShopsAndBakeries", "attractions", "art", "city", "sport", "other"}

\* validators.validate_category
validate_category(value) == value \in allowed_categories

\* DecimalField(3, 2): at most three digits, two of them decimal places
DecimalField_3_2(value) == value > -1000 /\ value < 1000

\* the database gave out no id yet
NoSeqs == [place |-> 0, image |-> 0]

NoResponse == [op |-> "none", user |-> <<>>, pk |-> 0, rating |-> <<>>,
               images |-> <<>>, status |-> "none"]

\* an empty store
StoreInit ==
    /\ places = <<>>
    /\ ratings = {}
    /\ images = <<>>
    /\ seqs = NoSeqs
    /\ nops = 0
    /\ resp = NoResponse

\* a function without the arguments in gone
Without(f, gone) == [x \in DOMAIN f \ gone |-> f[x]]

\* user.places
PlacesOf(user) == {i \in DOMAIN places : places[i].added_by = user}

\* place.ratings.filter(user=user)
RatingsOf(pk, user) == {r \in ratings : r.place = pk /\ r.user = user}

\* on_delete=models.CASCADE: the rows that go with the places in gone
CascadeRatings(rs, gone) == {r \in rs : r.place \notin gone}

(***************************************************************************)
(* Requests.                                                               *)
(***************************************************************************)
IdleProc == [pc |-> "idle", op |-> "none", email |-> <<>>, cand |-> <<>>,
             npw |-> <<>>, cpw |-> <<>>, gen |-> None, clean |-> TRUE,
             alone |-> TRUE]

\* History of a key: the secret most recently stored under it, the email
\* and purpose it was issued for, the minutes since, how many try_use calls
\* on the key returned True since, the value get_or_create last handed
\* out since an entry of the key was last deleted or expired, and whether a
\* request presenting the secret was turned away by validation since.
NoHist == [val |-> None, owner |-> <<>>, kind |-> "none", age |-> 0,
           uses |-> 0, given |-> None, spared |-> FALSE]

NoRequest == [op |-> "none", email |-> <<>>, cand |-> <<>>, ret |-> "none",
              sec |-> None, found |-> FALSE, stage |-> 0, ok |-> TRUE]

\* User: first_name and last_name may be blank, avatar may be null,
\* is_premium defaults to False
NewProfile(phone_number) ==
    [first_name |-> <<>>, last_name |-> <<>>, phone_number |-> phone_number,
     avatar |-> None, is_premium |-> FALSE]

\* two registered users, no request in flight, an empty cache
ResetInit ==
    /\ cache = [k \in Keys |-> NoEntry]
    /\ users = [e \in {EmailA, EmailB} |-> make_password(OldPassword)]
    /\ profiles = [e \in {EmailA, EmailB} |-> NewProfile(DefaultPhone)]
    /\ proc = [p \in Procs |-> IdleProc]
    /\ nreq = 0
    /\ hist = [k \in Keys |-> NoHist]
    /\ last = NoRequest

Init ==
    /\ ResetInit
    /\ StoreInit

\* mutant: the email is not looked up
UserExists_any(email) == TRUE

\* User.objects.filter(email=...).exists()
UserExists(email) == email \in DOMAIN users

\* no other request is in flight
Quiet(p) == \A q \in Procs \ {p} : proc[q].pc = "idle"

\* a request is taken by the first free worker; requests arrive until
\* MaxRequests of them have passed validation
Free(p) ==
    /\ nreq < MaxRequests
    /\ proc[p].pc = "idle"
    /\ \A q \in Procs : q < p => proc[q].pc # "idle"

\* the key a request passes to get_or_create_code / get_or_create_token:
\* FindEmailSerializer.save and CodeWithEmailSerializer.save use the email
\* of the request as it was sent
IssueKey(r) ==
    IF r.op = "send_email" THEN code_key(r.email) ELSE token_key(r.email)

\* mutant: the code is stored with the token's timeout
IssueTTL_token(r) == TokenTTL

\* timeout=cls.__ttl.seconds
IssueTTL(r) == IF r.op = "send_email" THEN CodeTTL ELSE TokenTTL

\* random.choices(...)
IssueGen(r) == IF r.op = "send_email" THEN GenCodes ELSE GenTokens

IssueKind(r) == IF r.op = "send_email" THEN "code" ELSE "token"

\* the key a request passes to try_use_code / try_use_token: the validate
\* methods use the normalised email
UseKey(r) ==
    IF r.op = "send_reset_code" THEN code_key(normalize_email(r.email))
    ELSE token_key(normalize_email(r.email))

\* History: the place of a completed request in an uninterrupted
\* send_email, send_reset_code, change_password sequence for one email.
Chain(r, ret, sec, usersAfter) ==
    IF r.op = "send_email" /\ UserExists(normalize_email(r.email))
    THEN [stage |-> 1, ok |-> ret = "ok"]
    ELSE IF /\ r.op = "send_reset_code"
            /\ last.stage = 1 /\ last.ok
            /\ r.email = last.email /\ r.cand = last.sec
    THEN [stage |-> 2, ok |-> ret = "ok"]
    ELSE IF /\ r.op = "change_password"
            /\ last.stage = 2 /\ last.ok
            /\ r.email = last.email /\ r.cand = last.sec
            /\ r.npw = r.cpw /\ validate_password(r.npw)
    THEN [stage |-> 3,
          ok |-> /\ ret = "ok"
                 /\ check_password(r.npw, usersAfter[normalize_email(r.email)])]
    ELSE [stage |-> 0, ok |-> TRUE]

\* History: the secret a request presents is the live secret of its email
PresentsLive(r) ==
    /\ r.op \in {"send_reset_code", "change_password"}
    /\ CacheGet(cache, UseKey(r)) = r.cand

\* History is kept of the requests that passed validation and were served
\* alone.
Completed(r, ret, sec, found, alone, usersAfter) ==
    LET ch == Chain(r, ret, sec, usersAfter)
    IN  IF ~alone THEN NoRequest ELSE
        [op |-> r.op, email |-> r.email, cand |-> r.cand,
         ret |-> ret, sec |-> sec, found |-> found,
         stage |-> ch.stage, ok |-> ch.ok]

\* a request arrives at worker p: the requests already in flight are no
\* longer alone
Arrive(p, r, pc0) ==
    /\ proc' = [q \in Procs |->
                IF q = p THEN [r EXCEPT !.pc = pc0, !.alone = Quiet(p)]
                ELSE IF proc[q].pc # "idle" THEN [proc[q] EXCEPT !.alone = FALSE]
                ELSE proc[q]]
    /\ last' = IF Quiet(p) THEN last ELSE NoRequest
    /\ nreq' = nreq + 1
    /\ UNCHANGED <<cache, users, hist>>

\* a request is answered with a validation error before it touches the cache
Reject(p, r, reason) ==
    /\ proc' = [q \in Procs |->
                IF proc[q].pc # "idle" THEN [proc[q] EXCEPT !.alone = FALSE]
                ELSE proc[q]]
    /\ hist' = IF PresentsLive(r)
               THEN [hist EXCEPT ![UseKey(r)].spared = TRUE]
               ELSE hist
    /\ UNCHANGED <<cache, users, nreq, last>>

\* worker p answers its request
Finish(p, ret, sec, found, usersAfter) ==
    /\ proc' = [proc EXCEPT ![p] = IdleProc]
    /\ last' = Completed(proc[p], ret, sec, found, proc[p].alone, usersAfter)

Request(op, email, cand, npw, cpw) ==
    [IdleProc EXCEPT !.op = op, !.email = email, !.cand = cand,
                     !.npw = npw, !.cpw = cpw]

\* GET reset-password: FindEmailSerializer.validate
send_email(p, email) ==
    LET r == Request("send_email", email, <<>>, <<>>, <<>>)
        norm_email == normalize_email(email)
    IN  /\ Free(p)
        /\ IF ~UserExists(norm_email)
           THEN Reject(p, r, "no_user")
           ELSE Arrive(p, r, "goc_get")

\* POST reset-password: CodeWithEmailSerializer.validate up to try_use_code
send_reset_code(p, email, code) ==
    LET r == Request("send_reset_code", email, code, <<>>, <<>>)
        norm_email == normalize_email(email)
    IN  /\ Free(p)
        /\ IF ~UserExists(norm_email)
           THEN Reject(p, r, "no_user")
           ELSE IF ~code_format_ok(code)
           THEN Reject(p, r, "invalid_code")
           ELSE Arrive(p, r, "use_get")

\* mutant: the two new passwords are not compared before the token is used
ChangePasswordForgot_validate_late(email, session_token, new_password, confirmation_password) ==
    IF ~validate_password(new_password) \/ ~validate_password(confirmation_password)
    THEN "invalid_password"
    ELSE IF ~UserExists(normalize_email(email)) THEN "no_user"
    ELSE IF ~token_format_ok(session_token) THEN "invalid_token"
    ELSE "try_use_token"

\* what ChangePasswordForgotSerializer decides before try_use_token: the
\* field validators, then validate() up to the token check
ChangePasswordForgot_validate(email, session_token, new_password, confirmation_password) ==
    IF ~validate_password(new_password) \/ ~validate_password(confirmation_password)
    THEN "invalid_password"
    ELSE IF ~UserExists(normalize_email(email)) THEN "no_user"
    ELSE IF ~token_format_ok(session_token) THEN "invalid_token"
    ELSE IF new_password # confirmation_password THEN "mismatch"
    ELSE "try_use_token"

\* PATCH reset-password
change_password(p, email, session_token, new_password, confirmation_password) ==
    LET r == Request("change_password", email, session_token, new_password,
                     confirmation_password)
        verdict == ChangePasswordForgot_validate(email, session_token,
                                                 new_password, confirmation_password)
    IN  /\ Free(p)
        /\ IF verdict # "try_use_token"
           THEN Reject(p, r, verdict)
           ELSE Arrive(p, r, "use_get")

\* how a request that was issued a secret ends: FindEmailSerializer.save
\* ends with User.objects.get(email=email), on the email as it was sent
IssueResult(r) ==
    IF r.op = "send_email" /\ ~UserExists(r.email) THEN "error" ELSE "ok"

\* get_or_create_code / get_or_create_token: code = cache.get(key, None);
\* return it if there is one, else draw a new one
get_or_create_get(p) ==
    LET r == proc[p]
        key == IssueKey(r)
        code == CacheGet(cache, key)
    IN  /\ r.pc = "goc_get"
        /\ IF code # None
           THEN /\ Finish(p, IssueResult(r), code, TRUE, users)
                /\ hist' = [hist EXCEPT ![key].given = code]
           ELSE /\ \E g \in IssueGen(r) :
                      proc' = [proc EXCEPT ![p].pc = "goc_add", ![p].gen = g,
                                           ![p].clean = TRUE]
                /\ UNCHANGED <<hist, last>>
        /\ UNCHANGED <<cache, users, nreq>>

\* cache.add(key, code, timeout=cls.__ttl.seconds)
get_or_create_add(p) ==
    LET r == proc[p]
        key == IssueKey(r)
    IN  /\ r.pc = "goc_add"
        /\ cache' = CacheAdd(cache, key, r.gen, IssueTTL(r))
        /\ hist' = IF cache'[key] # cache[key]
                   THEN [hist EXCEPT ![key] =
                            [val |-> r.gen, owner |-> r.email,
                             kind |-> IssueKind(r), age |-> 0, uses |-> 0,
                             given |-> hist[key].given, spared |-> FALSE]]
                   ELSE hist
        /\ proc' = [proc EXCEPT ![p].pc = "goc_ret"]
        /\ UNCHANGED <<users, nreq, last>>

\* mutant: the call returns the secret it drew itself
get_or_create_return_own(p) ==
    LET r == proc[p]
        key == IssueKey(r)
    IN  /\ r.pc = "goc_ret"
        /\ Finish(p, IssueResult(r), r.gen, FALSE, users)
        /\ hist' = [hist EXCEPT ![key].given = r.gen]
        /\ UNCHANGED <<cache, users, nreq>>

\* return cache.get(key)
get_or_create_return(p) ==
    LET r == proc[p]
        key == IssueKey(r)
        code == CacheGet(cache, key)
    IN  /\ r.pc = "goc_ret"
        /\ Finish(p, IssueResult(r), code, FALSE, users)
        /\ hist' = [hist EXCEPT ![key].given = code]
        /\ UNCHANGED <<cache, users, nreq>>

\* mutant: the stored value is not compared with the one presented
try_use_get_unchecked(p) ==
    /\ proc[p].pc = "use_get"
    /\ proc' = [proc EXCEPT ![p].pc = "use_del"]
    /\ UNCHANGED <<cache, users, nreq, hist, last>>

\* mutant: a failed attempt deletes the entry
try_use_get_deleting(p) ==
    LET r == proc[p]
        key == UseKey(r)
    IN  /\ r.pc = "use_get"
        /\ IF CacheGet(cache, key) # r.cand
           THEN /\ Finish(p, "wrong_secret", None, FALSE, users)
                /\ cache' = CacheDelete(cache, key)
           ELSE /\ proc' = [proc EXCEPT ![p].pc = "use_del"]
                /\ UNCHANGED <<last, cache>>
        /\ UNCHANGED <<users, nreq, hist>>

\* try_use_code / try_use_token: if cache.get(key) != code: return False
try_use_get(p) ==
    LET r == proc[p]
        key == UseKey(r)
    IN  /\ r.pc = "use_get"
        /\ IF CacheGet(cache, key) # r.cand
           THEN Finish(p, "wrong_secret", None, FALSE, users)
           ELSE /\ proc' = [proc EXCEPT ![p].pc = "use_del"]
                /\ UNCHANGED last
        /\ UNCHANGED <<cache, users, nreq, hist>>

\* History: the calls of get_or_create in flight during which an entry of
\* their key was deleted or expired
Disturb(pr, gone) ==
    [q \in Procs |->
        IF pr[q].pc \in {"goc_add", "goc_ret"} /\ IssueKey(pr[q]) \in gone
        THEN [pr[q] EXCEPT !.clean = FALSE] ELSE pr[q]]

\* cache.delete(key); return True
try_use_delete(p) ==
    LET r == proc[p]
        key == UseKey(r)
        gone == IF cache[key] # NoEntry /\ cache'[key] = NoEntry THEN {key} ELSE {}
    IN  /\ r.pc = "use_del"
        /\ cache' = CacheDelete(cache, key)
        /\ hist' = [hist EXCEPT ![key].uses = @ + 1,
                                ![key].given = IF key \in gone THEN None ELSE @]
        /\ proc' = [Disturb(proc, gone) EXCEPT
                       ![p].pc = IF r.op = "send_reset_code" THEN "goc_get"
                                 ELSE "save"]
        /\ UNCHANGED <<users, nreq, last>>

\* ChangePasswordForgotSerializer.save
ChangePasswordForgot_save(p) ==
    LET r == proc[p]
        norm_email == normalize_email(r.email)
    IN  /\ r.pc = "save"
        /\ users' = [users EXCEPT ![norm_email] = make_password(r.npw)]
        /\ Finish(p, "ok", None, FALSE, users')
        /\ UNCHANGED <<cache, nreq, hist>>

\* time passes: every entry is MinutesPerTick minutes older, and an entry
\* whose timeout has run out is gone
Tick ==
    LET gone == {k \in Keys : cache[k] # NoEntry /\ cache[k].left <= MinutesPerTick}
    IN  /\ \E k \in Keys : cache[k] # NoEntry
        /\ cache' = [k \in Keys |->
                        IF cache[k] = NoEntry \/ k \in gone THEN NoEntry
                        ELSE [cache[k] EXCEPT !.left = @ - MinutesPerTick]]
        /\ hist' = [k \in Keys |->
                        IF cache[k] = NoEntry THEN hist[k]
                        ELSE [hist[k] EXCEPT !.age = @ + MinutesPerTick,
                                  !.given = IF k \in gone THEN None ELSE @]]
        /\ proc' = Disturb(proc, gone)
        /\ last' = IF \/ last.stage = 1 /\ code_key(last.email) \in gone
                      \/ last.stage = 2 /\ token_key(last.email) \in gone
                   THEN [last EXCEPT !.stage = 0, !.ok = TRUE]
                   ELSE last
        /\ UNCHANGED <<users, nreq>>

Next ==
    \/ (\E p \in Procs, e \in RequestEmails : send_email(p, e))
       /\ UNCHANGED pvars
    \/ (\E p \in Procs, e \in RequestEmails, c \in CodeInputs : send_reset_code(p, e, c))
       /\ UNCHANGED pvars
    \/ (\E p \in Procs, e \in RequestEmails, t \in TokenInputs, pw \in PasswordInputs :
           change_password(p, e, t, pw[1], pw[2]))
       /\ UNCHANGED pvars
    \/ (\E p \in Procs : get_or_create_get(p)) /\ UNCHANGED pvars
    \/ (\E p \in Procs : get_or_create_add(p)) /\ UNCHANGED pvars
    \/ (\E p \in Procs : get_or_create_return(p)) /\ UNCHANGED pvars
    \/ (\E p \in Procs : try_use_get(p)) /\ UNCHANGED pvars
    \/ (\E p \in Procs : try_use_delete(p)) /\ UNCHANGED pvars
    \/ (\E p \in Procs : ChangePasswordForgot_save(p)) /\ UNCHANGED pvars
    \/ Tick /\ UNCHANGED pvars

Spec == Init /\ [][Next]_vars

TypeOK ==
    /\ nreq \in 0..MaxRequests
    /\ \A k \in Keys : cache[k].left \in 0..TokenTTL
    /\ \A p \in Procs : proc[p].pc \in
           {"idle", "goc_get", "goc_add", "goc_ret", "use_get", "use_del", "save"}

(***************************************************************************)
(* Properties.                                                             *)
(***************************************************************************)
\* worker p takes a step
Acts(p) == proc'[p].pc # proc[p].pc

\* the TTL the code gives the entries of a key, by the purpose of the key
KeyTTL(k) == IF \E e \in RequestEmails : k = code_key(e) THEN CodeTTL ELSE TokenTTL

\* C1: of the try_use calls made with the value of one stored secret, at
\* most one returns True, however the calls' get and delete steps interleave
\* (uses counts the calls on a key that returned True since its secret was
\* stored).
C1_AtMostOneConsumer == \A k \in Keys : hist[k].uses <= 1

\* C2: a try_use call that presents the issued secret while its entry is
\* live returns True and leaves the key without an entry; every call that
\* presents it after a call has returned True, with no issuance in between,
\* returns False.
C2_SingleUse ==
    [][\A p \in Procs :
          LET r == proc[p]
              k == UseKey(r)
          IN  /\ (r.pc = "use_get" /\ Acts(p) /\ cache[k] # NoEntry
                    /\ hist[k].val = r.cand /\ hist[k].uses = 0)
                 => proc'[p].pc = "use_del"
              /\ (r.pc = "use_del" /\ Acts(p))
                 => /\ cache'[k] = NoEntry
                    /\ proc'[p].pc \in {"goc_get", "save"}
              /\ (r.pc = "use_get" /\ Acts(p) /\ hist[k].val = r.cand
                    /\ hist[k].uses >= 1)
                 => /\ proc'[p].pc = "idle"
                    /\ cache' = cache
                    /\ last' # NoRequest => last'.ret = "wrong_secret"]_vars

\* C2 witness: a second send_reset_code with the code that was already used
\* has been refused
C2_Witness ==
    /\ last.op = "send_reset_code"
    /\ last.ret = "wrong_secret"
    /\ hist[UseKey(last)].val = last.cand
    /\ hist[UseKey(last)].uses = 1
    /\ hist[UseKey(last)].age < CodeTTL

\* C3: while a stored secret is live no step replaces it, and a call of
\* get_or_create that starts while it is live returns that very secret and
\* leaves the cache as it is.
C3_IdempotentIssuance ==
    [][\A k \in Keys :
          cache[k] # NoEntry =>
              /\ cache'[k] # NoEntry => cache'[k].val = cache[k].val
              /\ \A p \in Procs :
                    (proc[p].pc = "goc_get" /\ Acts(p) /\ IssueKey(proc[p]) = k)
                    => /\ proc'[p].pc = "idle"
                       /\ hist'[k].given = hist[k].val
                       /\ cache' = cache]_vars

\* C3 witness: a second send_email found the live code and returned it
C3_Witness ==
    /\ last.op = "send_email"
    /\ last.found
    /\ last.sec # None
    /\ last.sec = cache[code_key(last.email)].val
    /\ hist[code_key(last.email)].val = last.sec

\* C4: a call of get_or_create that found no entry and during which no
\* entry of its key was deleted or expired returns the secret that is
\* stored, which is the secret every other call has returned since the key
\* was last without an entry; and cache.add stores nothing over a live entry.
C4_IssuanceRace ==
    [][\A p \in Procs :
          LET r == proc[p]
              k == IssueKey(r)
          IN  /\ (r.pc = "goc_ret" /\ Acts(p) /\ r.clean)
                 => /\ cache[k] # NoEntry
                    /\ hist'[k].given = cache[k].val
                    /\ hist[k].given \in {None, hist'[k].given}
                    /\ cache' = cache
              /\ (r.pc = "goc_add" /\ Acts(p) /\ cache[k] # NoEntry)
                 => cache' = cache]_vars

\* C4 witness: a call that drew a secret of its own is about to return
\* after the call it raced with has stored and returned another
C4_Witness ==
    \E p \in Procs :
        /\ proc[p].pc = "goc_ret"
        /\ proc[p].clean
        /\ hist[IssueKey(proc[p])].given # None
        /\ hist[IssueKey(proc[p])].given # proc[p].gen
        /\ cache[IssueKey(proc[p])].val = hist[IssueKey(proc[p])].given

\* C5: a stored password changes only in the save step of a
\* change_password request, and only that of the request's user; a request
\* reaches save only by returning from the delete of try_use_token, which
\* it reaches only by reading a live token equal to the one presented under
\* the key of its user; and a token entry appears only in the add step of a
\* send_reset_code request, which reaches get_or_create_token only by
\* returning from the delete of try_use_code.
C5_ProtocolOrder ==
    [][/\ users' # users =>
            \E p \in Procs :
                /\ proc[p].pc = "save" /\ Acts(p)
                /\ proc[p].op = "change_password"
                /\ \A e \in DOMAIN users :
                       e # normalize_email(proc[p].email) => users'[e] = users[e]
       /\ \A p \in Procs :
            /\ (proc'[p].pc = "save" /\ Acts(p))
               => proc[p].pc = "use_del" /\ proc[p].op = "change_password"
            /\ (proc'[p].pc = "use_del" /\ Acts(p))
               => /\ proc[p].pc = "use_get"
                  /\ cache[UseKey(proc[p])] # NoEntry
                  /\ cache[UseKey(proc[p])].val = proc[p].cand
                  /\ hist[UseKey(proc[p])].kind =
                        (IF proc[p].op = "change_password" THEN "token" ELSE "code")
            /\ (proc'[p].pc = "goc_get" /\ Acts(p) /\ proc'[p].op = "send_reset_code")
               => proc[p].pc = "use_del"
       /\ \A e \in RequestEmails :
            (cache[token_key(e)] = NoEntry /\ cache'[token_key(e)] # NoEntry)
            => \E p \in Procs :
                   /\ proc[p].pc = "goc_add" /\ Acts(p)
                   /\ proc[p].op = "send_reset_code"
                   /\ proc[p].email = e]_vars

\* C5 witness: a change_password request has set the new password
C5_Witness ==
    /\ last.op = "change_password"
    /\ last.ret = "ok"
    /\ check_password(NewPassword, users[EmailA])

\* C6: every request of an uninterrupted send_email, send_reset_code (with
\* the code issued), change_password (with the token returned and matching
\* valid passwords) sequence, for an email the serializers accept and
\* within the TTLs, succeeds, and the last leaves the new password stored.
C6_ResetFlowCompletes == last.stage > 0 => last.ok

\* C7: a try_use call that reads no live entry, or an entry whose value is
\* not the one presented, returns False at once and changes nothing.
C7_FailedConsumeNoEffect ==
    [][\A p \in Procs :
          LET r == proc[p]
              k == UseKey(r)
          IN  (r.pc = "use_get" /\ Acts(p)
                 /\ (cache[k] = NoEntry \/ cache[k].val # r.cand))
              => /\ proc'[p].pc = "idle"
                 /\ cache' = cache
                 /\ users' = users
                 /\ last' # NoRequest => last'.ret = "wrong_secret"]_vars

\* C7 witness: an attempt with a wrong value has been refused and the
\* entry is still live
C7_Witness ==
    /\ last.ret = "wrong_secret"
    /\ cache[UseKey(last)] # NoEntry
    /\ cache[UseKey(last)].val # last.cand

\* C8: no step leaves an entry in the cache once the TTL of its purpose
\* has passed since it was stored; a try_use call that presents an expired secret
\* returns False; a cache.add on a key without an entry stores the drawn
\* secret with the full TTL.
C8_Expiry ==
    [][/\ \A k \in Keys : cache'[k] # NoEntry => hist'[k].age < KeyTTL(k)
       /\ \A p \in Procs :
             LET r == proc[p]
             IN  /\ (r.pc = "use_get" /\ Acts(p)
                       /\ hist[UseKey(r)].val = r.cand
                       /\ hist[UseKey(r)].age >= KeyTTL(UseKey(r)))
                    => proc'[p].pc = "idle" /\ cache' = cache
                 /\ (r.pc = "goc_add" /\ Acts(p) /\ cache[IssueKey(r)] = NoEntry)
                    => /\ cache'[IssueKey(r)] =
                              [val |-> r.gen, left |-> KeyTTL(IssueKey(r))]
                       /\ hist'[IssueKey(r)].age = 0]_vars

\* C8 witness: a send_reset_code with the code that expired unused has been
\* refused
C8_Witness ==
    /\ last.op = "send_reset_code"
    /\ last.ret = "wrong_secret"
    /\ hist[UseKey(last)].val = last.cand
    /\ hist[UseKey(last)].uses = 0
    /\ hist[UseKey(last)].age >= CodeTTL

\* a live token equal to t was issued for the email
OwnsLiveToken(email, t) ==
    \E k \in Keys :
        /\ cache[k] # NoEntry /\ cache[k].val = t
        /\ hist[k].kind = "token" /\ hist[k].owner = email

\* C9: a change_password request that presents a token of which no live
\* copy was issued for its own email is refused by try_use_token and
\* changes no cache entry and no password, whichever other email holds
\* that token.
C9_BoundToEmail ==
    [][\A p \in Procs :
          LET r == proc[p]
          IN  (r.pc = "use_get" /\ Acts(p) /\ r.op = "change_password"
                 /\ ~OwnsLiveToken(normalize_email(r.email), r.cand))
              => /\ proc'[p].pc = "idle"
                 /\ cache' = cache
                 /\ users' = users
                 /\ last' # NoRequest => last'.ret = "wrong_secret"]_vars

\* C9 witness: a change_password for one user that presented the live
\* token of another user has been refused; the token is still live and the
\* password is the old one
C9_Witness ==
    /\ last.op = "change_password"
    /\ last.ret = "wrong_secret"
    /\ last.email = EmailB
    /\ OwnsLiveToken(EmailA, last.cand)
    /\ cache[token_key(EmailA)].val = last.cand
    /\ check_password(OldPassword, users[EmailB])

\* the request fails a check other than the token check
NonTokenDefect(r) ==
    \/ ~UserExists(normalize_email(r.email))
    \/ ~token_format_ok(r.cand)
    \/ ~validate_password(r.npw)
    \/ ~validate_password(r.cpw)
    \/ r.npw # r.cpw

\* C10: a change_password request that fails a check other than the token
\* check changes no cache entry and no password in any of its steps; the
\* step that turns away a request presenting the live token of its email
\* leaves cache and passwords as they are, and a later valid request that
\* presents that token while it is live passes try_use_token.
C10_RejectedKeepsToken ==
    [][/\ \A p \in Procs :
            (proc[p].op = "change_password" /\ NonTokenDefect(proc[p]) /\ Acts(p))
            => cache' = cache /\ users' = users
       /\ \A k \in Keys :
            /\ (hist'[k].spared /\ ~hist[k].spared)
               => cache' = cache /\ users' = users /\ cache[k] # NoEntry
            /\ \A p \in Procs :
                  (/\ proc[p].pc = "use_get" /\ Acts(p)
                   /\ proc[p].op = "change_password" /\ UseKey(proc[p]) = k
                   /\ hist[k].spared /\ cache[k] # NoEntry
                   /\ cache[k].val = proc[p].cand)
                  => proc'[p].pc = "use_del"]_vars

\* C10 witness: a change_password has succeeded with a token that an
\* earlier, rejected change_password had presented while it was live
C10_Witness ==
    /\ last.op = "change_password"
    /\ last.ret = "ok"
    /\ hist[UseKey(last)].spared
    /\ hist[UseKey(last)].val = last.cand
    /\ hist[UseKey(last)].uses = 1

(***************************************************************************)
(* Places: bounds, constants and inputs.                                   *)
(***************************************************************************)
MaxPlaceId == 2
MaxImageId == 12
MaxPlaceOps == 3

\* "Total of secondary images has to be less or equal to 10!"
MaxSecondaryImages == 10

\* an optional field of a request: absent, or present with a value
Absent == <<>>
Some(v) == <<v>>
Given(x) == x # Absent
Val(x) == x[1]

CategoryInputs == {"art", "zoo"}
RatingInputs == {200, 450, 700}
LatitudeInputs == {0, 9100}
LongitudeInputs == {9}
\* len(secondary_images) / len(images_to_upload)
UploadInputs == {1, 10, 11}

Min(S) == CHOOSE x \in S : \A y \in S : x <= y
Max(S) == CHOOSE x \in S : \A y \in S : x >= y

\* image_ids_to_delete, for a place whose images are cur
DeleteInputs(cur) ==
    {<<>>, <<0>>}
    \cup (IF cur = {} THEN {}
          ELSE {<<Min(cur)>>, <<Min(cur), Min(cur)>>, <<Min(cur), Max(cur)>>})

(***************************************************************************)
(* Places: create, update, delete, secondary images.                       *)
(***************************************************************************)
ResetVars == <<cache, proc, nreq, hist, last>>

\* the response; requests arrive until MaxPlaceOps of them have changed
\* the store
Answer(op, user, pk, rating, image_data, status) ==
    /\ nops < MaxPlaceOps
    /\ resp' = [op |-> op, user |-> user, pk |-> pk, rating |-> rating,
                images |-> image_data, status |-> status]
    /\ nops' = IF <<places, ratings, images, users>>' = <<places, ratings, images, users>>
               THEN nops ELSE nops + 1

\* UpdatePlaceImagesSerializer.validate, for a place whose images are cur
\* and a request to upload n images
UpdatePlaceImages_validate(cur, image_ids_to_delete, n) ==
    LET ids == Range(image_ids_to_delete)
        num_delete == Cardinality(cur) - Cardinality(ids)
        num_upload == Cardinality(cur) - num_delete + n
    IN  IF num_delete < 0 THEN "more_than_there_is"
        ELSE IF \E id \in ids : id \notin cur THEN "no_such_id"
        ELSE IF num_upload > MaxSecondaryImages THEN "too_many"
        ELSE "ok"

\* UpdatePlaceImagesSerializer.save: the images of the place afterwards
UpdatePlaceImages_save(cur, image_ids_to_delete, n) ==
    (cur \ Range(image_ids_to_delete)) \cup ((seqs.image + 1)..(seqs.image + n))

\* what ClientValidatePlaceSerializer says of the fields that are given
ClientValidatePlace(category, latitude, longitude, rating) ==
    /\ Given(latitude) => validate_latitude(Val(latitude))
    /\ Given(longitude) => validate_longitude(Val(longitude))
    /\ Given(rating) => DecimalField_3_2(Val(rating)) /\ validate_rating(Val(rating))
    /\ Given(category) => validate_category(Val(category))

\* CreateUpdatePlaceSerializer.create: the rating records afterwards
\* (self.context["user"].ratings.create(user=..., place=..., rating=...))
CreateUpdatePlace_create_ratings_unrated(user, pk, rating) == ratings

CreateUpdatePlace_create_ratings(user, pk, rating) ==
    ratings \cup {[user |-> user, place |-> pk, rating |-> rating]}

\* CreateUpdatePlaceSerializer.update: the rating records afterwards
\* (ratings.filter(user=..., place=instance).update(rating=...))
CreateUpdatePlace_update_ratings_creating(user, pk, rating) ==
    ratings \cup {[user |-> user, place |-> pk, rating |-> rating]}

CreateUpdatePlace_update_ratings(user, pk, rating) ==
    {IF r \in RatingsOf(pk, user) THEN [r EXCEPT !.rating = rating] ELSE r :
        r \in ratings}

\* POST places/: PlaceViewSet.create_place
create_place(user, category, latitude, longitude, rating, secondary_images) ==
    LET pk == seqs.place + 1
        n == IF Given(secondary_images) THEN Val(secondary_images) ELSE 0
        verdict == IF Given(secondary_images)
                   THEN UpdatePlaceImages_validate({}, <<>>, n) ELSE "ok"
        valid == ClientValidatePlace(Some(category), Some(latitude),
                                     Some(longitude), Some(rating))
    IN  /\ user \in DOMAIN users
        /\ nops < MaxPlaceOps
        /\ pk <= MaxPlaceId
        /\ seqs.image + n <= MaxImageId
        /\ IF ~valid
           THEN UNCHANGED <<places, ratings, images, seqs>>
           ELSE /\ places' = places @@
                      (pk :> [added_by |-> user, category |-> category,
                              location |-> [lon |-> longitude, lat |-> latitude]])
                /\ ratings' = CreateUpdatePlace_create_ratings(user, pk, rating)
                /\ IF verdict = "ok"
                   THEN /\ images' = images @@
                              (pk :> UpdatePlaceImages_save({}, <<>>, n))
                        /\ seqs' = [place |-> pk, image |-> seqs.image + n]
                   ELSE /\ images' = images @@ (pk :> {})
                        /\ seqs' = [seqs EXCEPT !.place = pk]
        /\ UNCHANGED <<users, profiles, ResetVars>>
        /\ IF ~valid THEN Answer("create_place", user, 0, Some(rating), Absent, "invalid")
           ELSE Answer("create_place", user, pk, Some(rating), Absent, verdict)

\* mutant: the permission of the object is not checked
get_object_unchecked(user, pk) ==
    IF pk \notin DOMAIN places THEN "not_found" ELSE "ok"

\* get_object: 404 for a missing place, then IsSameUserOrReadonly for a
\* method that is not safe
get_object(user, pk) ==
    IF pk \notin DOMAIN places THEN "not_found"
    ELSE IF ~(user \in DOMAIN users /\ user = places[pk].added_by) THEN "forbidden"
    ELSE "ok"

\* PATCH places/<pk>/: PlaceViewSet.update_place
update_place(user, pk, category, latitude, longitude, rating) ==
    LET verdict == IF get_object(user, pk) # "ok" THEN get_object(user, pk)
                   ELSE IF ~ClientValidatePlace(category, latitude, longitude, rating)
                   THEN "invalid" ELSE "ok"
    IN  /\ user \in DOMAIN users
        /\ IF verdict # "ok"
           THEN UNCHANGED <<places, ratings>>
           ELSE /\ places' = [places EXCEPT
                      ![pk].category = IF Given(category) THEN Val(category) ELSE @,
                      ![pk].location =
                          IF Given(latitude) /\ Given(longitude)
                          THEN [lon |-> Val(longitude), lat |-> Val(latitude)]
                          ELSE @]
                /\ ratings' = IF ~Given(rating) THEN ratings
                              ELSE CreateUpdatePlace_update_ratings(
                                       user, pk, Val(rating))
        /\ UNCHANGED <<images, seqs, users, profiles, ResetVars>>
        /\ Answer("update_place", user, pk, rating, Absent, verdict)

\* DELETE places/<pk>/: PlaceViewSet.delete_place
delete_place(user, pk) ==
    LET verdict == get_object(user, pk)
    IN  /\ user \in DOMAIN users
        /\ IF verdict # "ok"
           THEN UNCHANGED <<places, ratings, images>>
           ELSE /\ places' = Without(places, {pk})
                /\ ratings' = CascadeRatings(ratings, {pk})
                /\ images' = Without(images, {pk})
        /\ UNCHANGED <<seqs, users, profiles, ResetVars>>
        /\ Answer("delete_place", user, pk, Absent, Absent, verdict)

\* DELETE users/settings/: UserInfoViewSet.delete_current
delete_current(user) ==
    LET gone == PlacesOf(user)
    IN  /\ user \in DOMAIN users
        /\ users' = Without(users, {user})
        /\ profiles' = Without(profiles, {user})
        /\ places' = Without(places, gone)
        /\ ratings' = {r \in CascadeRatings(ratings, gone) : r.user # user}
        /\ images' = Without(images, gone)
        /\ UNCHANGED <<seqs, ResetVars>>
        /\ Answer("delete_current", user, 0, Absent, Absent, "ok")

\* PUT places/<pk>/images/: UpdatePlaceSecondaryImagesAPIView.put
put_images(user, pk, images_to_upload, image_ids_to_delete) ==
    LET n == images_to_upload
        verdict == IF get_object(user, pk) # "ok" THEN get_object(user, pk)
                   ELSE UpdatePlaceImages_validate(images[pk], image_ids_to_delete, n)
    IN  /\ user \in DOMAIN users
        /\ seqs.image + n <= MaxImageId
        /\ IF verdict # "ok"
           THEN UNCHANGED <<images, seqs>>
           ELSE /\ images' = [images EXCEPT ![pk] =
                      UpdatePlaceImages_save(images[pk], image_ids_to_delete, n)]
                /\ seqs' = [seqs EXCEPT !.image = @ + n]
        /\ UNCHANGED <<places, ratings, users, profiles, ResetVars>>
        /\ Answer("put_images", user, pk, Absent,
                  Some([images_to_upload |-> images_to_upload,
                        image_ids_to_delete |-> image_ids_to_delete]), verdict)

PlaceNext ==
    \/ \E u \in DOMAIN users, c \in CategoryInputs, lat \in LatitudeInputs,
          lon \in LongitudeInputs, r \in RatingInputs,
          imgs \in {Absent} \cup {Some(n) : n \in UploadInputs} :
           create_place(u, c, lat, lon, r, imgs)
    \/ \E u \in DOMAIN users, pk \in 1..MaxPlaceId,
          c \in {Absent} \cup {Some(x) : x \in CategoryInputs},
          ll \in {<<Absent, Absent>>, <<Some(0), Absent>>, <<Some(9100), Some(9)>>},
          r \in {Absent} \cup {Some(x) : x \in RatingInputs} :
           update_place(u, pk, c, ll[1], ll[2], r)
    \/ \E u \in DOMAIN users, pk \in 1..MaxPlaceId : delete_place(u, pk)
    \/ \E u \in DOMAIN users : delete_current(u)
    \/ \E u \in DOMAIN users, pk \in 1..MaxPlaceId, n \in UploadInputs :
          \E del \in DeleteInputs(IF pk \in DOMAIN images THEN images[pk] ELSE {}) :
             put_images(u, pk, n, del)

PlaceSpec == Init /\ [][PlaceNext]_<<vars, pvars>>

(***************************************************************************)
(* Properties of the places.                                               *)
(***************************************************************************)
\* C19: after any sequence of create_place and secondary-image updates,
\* every place has at most 10 secondary images
C19_AtMostTenImages ==
    \A pk \in DOMAIN images : Cardinality(images[pk]) <= MaxSecondaryImages

\* the rating records on place pk by the owner of the place
OwnerRatings(pk) == RatingsOf(pk, places[pk].added_by)

\* the (user, place) pairs of the rating records rs
RatingKeys(rs) == {<<r.user, r.place>> : r \in rs}

\* C20: every existing place has exactly one rating record by its owner,
\* with a value in [0, 5]; an update_place that carries a rating leaves
\* that one record with the given value and creates no second record for
\* a user and place that have one
C20_OneOwnerRating ==
    /\ \A pk \in DOMAIN places :
          /\ Cardinality(OwnerRatings(pk)) = 1
          /\ \A r \in OwnerRatings(pk) : r.rating >= 0 /\ r.rating <= 500
    /\ (resp.op = "update_place" /\ resp.status = "ok" /\ Given(resp.rating))
          => \A r \in OwnerRatings(resp.pk) : r.rating = Val(resp.rating)
    /\ Cardinality(ratings) = Cardinality(RatingKeys(ratings))

\* C20 witness: one place was created without images, and then a
\* update_place changed its owner's rating to the value of the request
C20_Witness ==
    /\ resp.op = "update_place" /\ resp.status = "ok" /\ Given(resp.rating)
    /\ nops = 2 /\ seqs = [place |-> 1, image |-> 0]
    /\ DOMAIN places = {1}
    /\ places[1].category = "art"
    /\ \E r \in ratings : r.place = 1 /\ r.rating = Val(resp.rating)

(***************************************************************************)
(* Filters: constants, stores and inputs.  Lengths on the sphere are       *)
(* counted in units of 8 m: a hundredth of a degree (1112 m near the       *)
(* equator, where every place and query point of the model lies) is 139    *)
(* units and a kilometre is 125.                                           *)
(***************************************************************************)
\* location__dwithin=(current_point, 0.05), in hundredths of a degree
PrefilterDegrees == 5

\* the distance in km when the request has none
DefaultDistance == 5

\* qs.filter(category=item["category"])[:10]
SplitCap == 10

NewPlace(user, category, lon, lat) ==
    [added_by |-> user, category |-> category,
     location |-> [lon |-> lon, lat |-> lat]]

NewRating(user, pk, rating) == [user |-> user, place |-> pk, rating |-> rating]

\* six places as create_place leaves them; place 5 belongs to another user
NearFarPlaces ==
    <<NewPlace(EmailA, "art", 0, 0), NewPlace(EmailA, "city", 1, 0),
      NewPlace(EmailA, "art", 4, 0), NewPlace(EmailA, "city", 9, 0),
      NewPlace(EmailB, "art", 0, 1), NewPlace(EmailA, "sport", 100, 0)>>

NearFarRatings ==
    {NewRating(EmailA, 1, 400), NewRating(EmailA, 2, 200),
     NewRating(EmailA, 4, 450), NewRating(EmailB, 5, 300),
     NewRating(EmailA, 6, 100)}

\* every place with the rating of its owner
RatedStore ==
    [places |-> NearFarPlaces,
     ratings |-> NearFarRatings \cup {NewRating(EmailA, 3, 0)}]

\* the rating of place 3 was deleted on the admin site, where PlaceRating
\* is registered
UnratedStore == [places |-> NearFarPlaces, ratings |-> NearFarRatings]

\* 3 places of category art and 12 of category city, of one user
ManyLongitudes == <<0, 1, 2, 3, 7, 8, 9, 10, 11, 12, 13, 14, 15, 16, 17>>

ManyStore ==
    [places |-> [pk \in 1..15 |->
                    NewPlace(EmailA, IF pk <= 3 THEN "art" ELSE "city",
                             ManyLongitudes[pk], 0)],
     ratings |-> {NewRating(EmailA, pk, 30 * pk) : pk \in 1..15}]

EmptyStore == [places |-> <<>>, ratings |-> {}]

Stores == {RatedStore, UnratedStore, ManyStore, EmptyStore}

FilterLatitudes == {0, 9100}
FilterLongitudes == {0, 3}
FilterDistances == {Absent, Some(0), Some(2), Some(20), Some(40076)}
FilterCategories == {Absent, Some({"art"}), Some({"art", "city"}), Some({"zoo"})}
FilterRatings == {Absent, Some(-100), Some(200), Some(300), Some(700), Some(1000)}
FilterOrderings == {Absent, Some("distance"), Some("-distance"), Some("rating"),
                    Some("-rating"), Some("name")}

\* the bodies of POST places/filter/ that are not empty
FilterBodies ==
    [latitude : FilterLatitudes, longitude : FilterLongitudes,
     distance : FilterDistances, categories : FilterCategories,
     rating : FilterRatings, ordering : FilterOrderings]

\* the bodies of POST places/new_filter/
NewFilterBodies ==
    [apply_filters : BOOLEAN, split_categories : BOOLEAN,
     latitude : FilterLatitudes, longitude : FilterLongitudes,
     distance : FilterDistances, categories : FilterCategories,
     rating : FilterRatings, ordering : FilterOrderings]

\* a store of places, and no request answered yet
FilterInit ==
    /\ ResetInit
    /\ \E s \in Stores :
          /\ places = s.places
          /\ ratings = s.ratings
          /\ images = [pk \in DOMAIN s.places |-> {}]
          /\ seqs = [place |-> Len(s.places), image |-> 0]
    /\ nops = 0
    /\ resp = NoResponse

(***************************************************************************)
(* Filters: the serializers.                                               *)
(***************************************************************************)
\* PlaceFilterSerializer.is_valid: latitude, longitude and distance are
\* required; categories and rating carry no validator of their own
PlaceFilter_is_valid(body) ==
    /\ validate_latitude(body.latitude)
    /\ validate_longitude(body.longitude)
    /\ Given(body.distance)
    /\ validate_distance(Val(body.distance))
    /\ Given(body.rating) => DecimalField_3_2(Val(body.rating))
    /\ Given(body.ordering) => validate_place_ordering(Val(body.ordering))

\* PlaceFilterNewSerializer.is_valid: distance is optional
PlaceFilterNew_is_valid(body) ==
    /\ validate_latitude(body.latitude)
    /\ validate_longitude(body.longitude)
    /\ Given(body.distance) => validate_distance(Val(body.distance))
    /\ Given(body.rating) => DecimalField_3_2(Val(body.rating))
    /\ Given(body.ordering) => validate_place_ordering(Val(body.ordering))

\* GEOSGeometry("POINT({} {})".format(longitude, latitude), srid=4326)
current_point(body) == [lon |-> body.longitude, lat |-> body.latitude]

\* the square of the planar distance, in hundredths of a degree
PlanarSq(a, b) ==
    (a.lon - b.lon) * (a.lon - b.lon) + (a.lat - b.lat) * (a.lat - b.lat)

\* location__dwithin=(point, degrees): planar, on a geometry field
dwithin(location, point, degrees) ==
    PlanarSq(location, point) <= degrees * degrees

\* mutant: no bound in kilometres
distance_lte_unbounded(location, point, km) == TRUE

\* location__distance_lte=(point, D(km=km)): the distance on the sphere
distance_lte(location, point, km) ==
    PlanarSq(location, point) * 139 * 139 <= (km * 125) * (km * 125)

\* mutant: the prefilter is applied whatever apply_filters says
Prefiltered_always(user, point, apply_filters) ==
    {pk \in PlacesOf(user) : dwithin(places[pk].location, point, PrefilterDegrees)}

\* user.places.filter(location__dwithin=...) or user.places.all()
Prefiltered(user, point, apply_filters) ==
    IF apply_filters
    THEN {pk \in PlacesOf(user) :
            dwithin(places[pk].location, point, PrefilterDegrees)}
    ELSE PlacesOf(user)

\* qs.filter(location__distance_lte=..., category__in=...)
Filtered(qs, point, km, categories) ==
    {pk \in qs :
        /\ distance_lte(places[pk].location, point, km)
        /\ Given(categories) => places[pk].category \in Val(categories)}

\* mutant: a place that its owner has not rated is excluded too
place_ids_to_exclude_unrated(qs, rating) ==
    {pk \in qs : \/ RatingsOf(pk, places[pk].added_by) = {}
                 \/ \E r \in RatingsOf(pk, places[pk].added_by) : r.rating < rating}

\* the places whose owner rated them below the rating of the request
place_ids_to_exclude(qs, rating) ==
    {pk \in qs : \E r \in RatingsOf(pk, places[pk].added_by) : r.rating < rating}

\* the sum of the ratings in rs
RECURSIVE SumRatings(_)
SumRatings(rs) ==
    IF rs = {} THEN 0
    ELSE LET r == CHOOSE x \in rs : TRUE
         IN  r.rating + SumRatings(rs \ {r})

\* Avg(rating_subquery): NULL (Absent) when the user has no rating on the place
AvgRating(user, pk) ==
    IF RatingsOf(pk, user) = {} THEN Absent
    ELSE Some(SumRatings(RatingsOf(pk, user)) \div Cardinality(RatingsOf(pk, user)))

\* "distance" in ordering, "rating" in ordering
InOrdering(word, ordering) ==
    Given(ordering) /\ Val(ordering) \in {word, "-" \o word}

\* the value a place is ordered by
OrderKeys(qs, user, point, ordering) ==
    IF InOrdering("distance", ordering)
    THEN [pk \in qs |-> Some(PlanarSq(places[pk].location, point))]
    ELSE [pk \in qs |-> AvgRating(user, pk)]

\* the order of the database: NULL is larger than every value
KeyLess(k1, k2) == Given(k1) /\ (Given(k2) => Val(k1) < Val(k2))

\* the sequences a database may return for order_by: rows of equal keys in
\* any order
RECURSIVE SortedSeqs(_, _, _)
SortedSeqs(qs, keys, descending) ==
    IF qs = {} THEN {<<>>}
    ELSE LET first == {pk \in qs : \A other \in qs :
                          IF descending THEN ~KeyLess(keys[pk], keys[other])
                          ELSE ~KeyLess(keys[other], keys[pk])}
         IN  UNION {{<<pk>> \o rest : rest \in SortedSeqs(qs \ {pk}, keys, descending)} :
                        pk \in first}

\* what get_filters_applied_queryset may return for qs: Absent where no
\* order_by is applied
Orderings(qs, user, point, ordering) ==
    IF InOrdering("distance", ordering) \/ InOrdering("rating", ordering)
    THEN {Some(s) : s \in SortedSeqs(qs, OrderKeys(qs, user, point, ordering),
                                     Val(ordering) \in {"-distance", "-rating"})}
    ELSE {Absent}

\* PlaceFilterSerializer.get_filters_applied_queryset, before order_by
PlaceFilter_queryset(user, body) ==
    LET qs == Filtered(Prefiltered(user, current_point(body), TRUE),
                       current_point(body), Val(body.distance), body.categories)
    IN  IF Given(body.rating)
        THEN qs \ place_ids_to_exclude(qs, Val(body.rating)) ELSE qs

\* mutant: another default
dist_smaller(distance) == IF Given(distance) THEN Val(distance) ELSE 2

\* dist: the distance of the request, 5.0 where it has none
dist(distance) == IF Given(distance) THEN Val(distance) ELSE DefaultDistance

\* PlaceFilterNewSerializer.get_filters_applied_queryset, before order_by
PlaceFilterNew_queryset(user, body) ==
    LET all == Prefiltered(user, current_point(body), body.apply_filters)
        qs == Filtered(all, current_point(body), dist(body.distance),
                       body.categories)
    IN  IF ~body.apply_filters THEN all
        ELSE IF Given(body.rating)
        THEN qs \ place_ids_to_exclude(qs, Val(body.rating)) ELSE qs

(***************************************************************************)
(* Filters: the views.                                                     *)
(***************************************************************************)
\* mutant: the whole set
Slices_all(qs, n) == {qs}

\* qs[:n] of a queryset without order_by: any n of its rows
Slices(qs, n) ==
    IF Cardinality(qs) <= n THEN {qs}
    ELSE {s \in SUBSET qs : Cardinality(s) = n}

\* the ids of qs.filter(category=category)[:10] of an ordered queryset
OrderedSlice(order, category) ==
    LET OfCategory(pk) == places[pk].category = category
        rows == SelectSeq(order, OfCategory)
    IN  Range(SubSeq(rows, 1, Min({SplitCap, Len(rows)})))

\* the dictionaries of the split: a category of qs to the ids of its list
RECURSIVE SplitChoices(_, _)
SplitChoices(categories, qs) ==
    IF categories = {} THEN {<<>>}
    ELSE LET c == CHOOSE x \in categories : TRUE
         IN  {(c :> s) @@ f :
                 s \in Slices({pk \in qs : places[pk].category = c}, SplitCap),
                 f \in SplitChoices(categories \ {c}, qs)}

\* qs.values("category").annotate(Count("category")) and the lists of at
\* most 10 places
Split(qs, order) ==
    LET categories == {places[pk].category : pk \in qs}
    IN  IF Given(order)
        THEN {[c \in categories |-> OrderedSlice(Val(order), c)]}
        ELSE SplitChoices(categories, qs)

FilterVars == <<users, profiles, places, ratings, images, seqs, nops, ResetVars>>

\* the response to a filter request: the queryset of the serializer, its
\* order where it has one, and the dictionary of the split where it is split
FilterResponse(op, user, body, status, qs, order, split) ==
    [op |-> op, user |-> user, body |-> body, status |-> status,
     qs |-> qs, order |-> order, split |-> split]

\* POST places/filter/ with a body: FilterPlacesAPIView.post, the list
filter_places(user, body) ==
    /\ user \in DOMAIN users
    /\ IF ~PlaceFilter_is_valid(body)
       THEN resp' = FilterResponse("filter_places", user, body, "invalid",
                                   {}, Absent, Absent)
       ELSE \E order \in Orderings(PlaceFilter_queryset(user, body), user,
                                   current_point(body), body.ordering) :
               resp' = FilterResponse("filter_places", user, body, "ok",
                           PlaceFilter_queryset(user, body), order, Absent)
    /\ UNCHANGED FilterVars

\* POST places/filter/ with the empty body: FilterPlacesAPIView.post, the
\* places of the user split by categories
filter_places_empty(user) ==
    /\ user \in DOMAIN users
    /\ \E split \in Split(PlacesOf(user), Absent) :
          resp' = FilterResponse("filter_places_empty", user, Absent, "ok",
                                 PlacesOf(user), Absent, Some(split))
    /\ UNCHANGED FilterVars

\* POST places/new_filter/: FilterPlacesNewAPIView.post
new_filter(user, body) ==
    /\ user \in DOMAIN users
    /\ IF ~PlaceFilterNew_is_valid(body)
       THEN resp' = FilterResponse("new_filter", user, body, "invalid",
                                   {}, Absent, Absent)
       ELSE LET qs == PlaceFilterNew_queryset(user, body)
                orders == IF body.apply_filters
                          THEN Orderings(qs, user, current_point(body), body.ordering)
                          ELSE {Absent}
            IN  \E order \in orders :
                  IF ~body.split_categories
                  THEN resp' = FilterResponse("new_filter", user, body, "ok",
                                              qs, order, Absent)
                  ELSE \E split \in Split(qs, order) :
                          resp' = FilterResponse("new_filter", user, body, "ok",
                                                 qs, order, Some(split))
    /\ UNCHANGED FilterVars

\* a filter request leaves the store as it is: one request is answered
\* from each store
FilterNext ==
    \/ resp = NoResponse
         /\ \E u \in DOMAIN users, body \in FilterBodies : filter_places(u, body)
    \/ resp = NoResponse
         /\ \E u \in DOMAIN users : filter_places_empty(u)
    \/ resp = NoResponse
         /\ \E u \in DOMAIN users, body \in NewFilterBodies : new_filter(u, body)

FilterSpec == FilterInit /\ [][FilterNext]_<<vars, pvars>>

(***************************************************************************)
(* Properties of the filters.                                              *)
(***************************************************************************)
\* the last request was answered by the filters of a serializer, applied
FiltersApplied ==
    /\ resp.op \in {"filter_places", "new_filter"}
    /\ resp.status = "ok"
    /\ resp.op = "new_filter" => resp.body.apply_filters

\* place pk lies at most km kilometres from the query point of the request
WithinKm(pk, km) ==
    PlanarSq(places[pk].location, current_point(resp.body)) * 19321
        <= km * km * 15625

\* C11: with the filters applied and a distance given, every place of the
\* queryset (and so of its order and of the lists of its split) belongs to
\* the requesting user and lies at most distance km from the query point
C11_DistanceSound ==
    (FiltersApplied /\ Given(resp.body.distance)) =>
        /\ \A pk \in resp.qs :
              /\ pk \in DOMAIN places
              /\ places[pk].added_by = resp.user
              /\ WithinKm(pk, Val(resp.body.distance))
        /\ Given(resp.order) => Range(Val(resp.order)) = resp.qs
        /\ Given(resp.split) =>
              \A c \in DOMAIN Val(resp.split) : Val(resp.split)[c] \subseteq resp.qs

\* C11 witness: a request with distance 2 km and no other filter returned
\* places, and left out a place of the user that passes the prefilter
C11_Witness ==
    /\ FiltersApplied
    /\ resp.body.distance = Some(2)
    /\ resp.body.categories = Absent /\ resp.body.rating = Absent
    /\ resp.qs # {}
    /\ \E pk \in PlacesOf(resp.user) \ resp.qs :
          dwithin(places[pk].location, current_point(resp.body), PrefilterDegrees)

\* place pk passes the category rule of the request
PassesCategories(pk) ==
    Given(resp.body.categories) => places[pk].category \in Val(resp.body.categories)

\* place pk passes the rating rule of the request
PassesRating(pk) ==
    Given(resp.body.rating) =>
        ~\E r \in OwnerRatings(pk) : r.rating < Val(resp.body.rating)

\* C12: with the filters applied and a valid distance given, the queryset
\* is the set of the user's places within distance km that pass the
\* category and rating rules: the 0.05-degree prefilter removes none of them
C12_PrefilterOnlyAccelerates ==
    (FiltersApplied /\ Given(resp.body.distance)) =>
        resp.qs = {pk \in PlacesOf(resp.user) :
                      /\ WithinKm(pk, Val(resp.body.distance))
                      /\ PassesCategories(pk)
                      /\ PassesRating(pk)}

\* the places that reach the rating rule of the request
RatingCandidates ==
    {pk \in PlacesOf(resp.user) :
        /\ dwithin(places[pk].location, current_point(resp.body), PrefilterDegrees)
        /\ WithinKm(pk, IF Given(resp.body.distance) THEN Val(resp.body.distance)
                        ELSE DefaultDistance)
        /\ PassesCategories(pk)}

\* C13: with the filters applied and a rating R given, a candidate place is
\* dropped exactly when its owner has a rating record on it with a value
\* below R; a place without a rating of its owner is never dropped
C13_RatingExclusion ==
    (FiltersApplied /\ Given(resp.body.rating)) =>
        /\ resp.qs \subseteq RatingCandidates
        /\ \A pk \in RatingCandidates :
              pk \notin resp.qs
                  <=> \E r \in OwnerRatings(pk) : r.rating < Val(resp.body.rating)
        /\ \A pk \in RatingCandidates : OwnerRatings(pk) = {} => pk \in resp.qs

\* C13 witness: a request with rating 3.00 dropped a place rated 2.00 by
\* its owner and returned a place rated 4.00 and a place without a rating
C13_Witness ==
    /\ FiltersApplied
    /\ resp.body.rating = Some(300)
    /\ \E pk \in RatingCandidates \ resp.qs :
          \E r \in OwnerRatings(pk) : r.rating = 200
    /\ \E pk \in resp.qs : \E r \in OwnerRatings(pk) : r.rating = 400
    /\ \E pk \in resp.qs : OwnerRatings(pk) = {}

\* C14: a filter request whose rating is outside [0, 5] is rejected by
\* validation and is answered with no list of places
C14_RatingOutOfRangeRejected ==
    (/\ resp.op \in {"filter_places", "new_filter"}
     /\ Given(resp.body.rating)
     /\ (Val(resp.body.rating) < 0 \/ Val(resp.body.rating) > 500))
        => resp.status = "invalid"

\* C15: a filter request whose categories hold a value outside the
\* enumeration of categories is rejected by validation
C15_UnknownCategoryRejected ==
    (/\ resp.op \in {"filter_places", "new_filter"}
     /\ Given(resp.body.categories)
     /\ Val(resp.body.categories) \ allowed_categories # {})
        => resp.status = "invalid"

\* C16: with apply_filters false the queryset of the serializer is the set
\* of all places of the requesting user and has no order, whatever the
\* query point, distance, categories, rating and ordering of the request
C16_NoFiltersAllPlaces ==
    (/\ resp.op = "new_filter"
     /\ resp.status = "ok"
     /\ ~resp.body.apply_filters)
        => /\ resp.qs = {pk \in DOMAIN places : places[pk].added_by = resp.user}
           /\ resp.order = Absent

\* C16 witness: a request without filters that carries a distance, a
\* category, a rating and an ordering was answered with all six places of
\* the user, of which some are beyond the distance, of another category or
\* rated below the rating
C16_Witness ==
    /\ resp.op = "new_filter"
    /\ resp.status = "ok"
    /\ ~resp.body.apply_filters /\ ~resp.body.split_categories
    /\ resp.body.distance = Some(2)
    /\ resp.body.categories = Some({"art"})
    /\ resp.body.rating = Some(300)
    /\ resp.body.ordering = Some("-rating")
    /\ Cardinality(resp.qs) = 5
    /\ \E pk \in resp.qs : ~WithinKm(pk, 2)
    /\ \E pk \in resp.qs : places[pk].category = "city"
    /\ \E pk \in resp.qs : \E r \in OwnerRatings(pk) : r.rating < 300

\* the number of places of the queryset that have category c
CategoryCount(c) == Cardinality({pk \in resp.qs : places[pk].category = c})

\* C17: in split mode the response has a list for each category that has
\* a place in the queryset and for no other; every place of a list is a
\* place of the queryset of that category, and a list has min(10, n)
\* places where n places of the queryset have the category
C17_SplitBuckets ==
    (resp.op \in {"filter_places_empty", "new_filter"} /\ Given(resp.split)) =>
        /\ DOMAIN Val(resp.split) = {places[pk].category : pk \in resp.qs}
        /\ \A c \in DOMAIN Val(resp.split) :
              /\ \A pk \in Val(resp.split)[c] :
                    pk \in resp.qs /\ places[pk].category = c
              /\ Cardinality(Val(resp.split)[c]) =
                    IF CategoryCount(c) < 10 THEN CategoryCount(c) ELSE 10

\* C17 witness: 3 places of category art and 12 of category city were
\* split into a list of 3 and a list of 10
C17_Witness ==
    /\ resp.op = "new_filter"
    /\ Given(resp.split)
    /\ resp.body.split_categories
    /\ DOMAIN Val(resp.split) = {"art", "city"}
    /\ CategoryCount("art") = 3 /\ CategoryCount("city") = 12
    /\ Cardinality(Val(resp.split)["art"]) = 3
    /\ Cardinality(Val(resp.split)["city"]) = 10

\* GetPlaceSerializer.get_rating: the rating of the user on the place, 0
\* where the user has none
get_rating(user, pk) ==
    IF RatingsOf(pk, user) = {} THEN 0
    ELSE (CHOOSE r \in RatingsOf(pk, user) : TRUE).rating

\* C18: with ordering rating (-rating) and the filters applied, the places
\* are returned in ascending (descending) order of the rating of the
\* requesting user, a place without a rating of the user counting as 0
C18_RatingOrder ==
    (FiltersApplied /\ InOrdering("rating", resp.body.ordering)) =>
        /\ Given(resp.order)
        /\ \A i, j \in 1..Len(Val(resp.order)) :
              i < j =>
                 IF Val(resp.body.ordering) = "-rating"
                 THEN get_rating(resp.user, Val(resp.order)[i])
                          >= get_rating(resp.user, Val(resp.order)[j])
                 ELSE get_rating(resp.user, Val(resp.order)[i])
                          <= get_rating(resp.user, Val(resp.order)[j])

(***************************************************************************)
(* Properties of the places: ownership, failed creation, image updates.    *)
(***************************************************************************)
\* C22: an update_place, delete_place or image PUT on an existing place by
\* a user who is not its added_by is rejected and leaves the places, the
\* ratings and the images unchanged; by the owner it is not rejected for
\* the lack of permission
C22_Ownership ==
    [][(/\ resp'.op \in {"update_place", "delete_place", "put_images"}
        /\ resp'.pk \in DOMAIN places)
          => IF places[resp'.pk].added_by # resp'.user
             THEN /\ resp'.status = "forbidden"
                  /\ places' = places
                  /\ ratings' = ratings
                  /\ images' = images
             ELSE resp'.status # "forbidden"]_<<vars, pvars>>

\* C22 witness: the store holds a place with an image, and a delete_place
\* of a user who is not its owner was rejected
C22_Witness ==
    /\ resp.op = "delete_place"
    /\ resp.status = "forbidden"
    /\ resp.pk \in DOMAIN places
    /\ places[resp.pk].added_by # resp.user
    /\ images[resp.pk] # {}
    /\ OwnerRatings(resp.pk) # {}

\* C27: a create_place that ends in a validation error leaves no new
\* place, rating or image in the store
C27_CreateAllOrNothing ==
    [][(resp'.op = "create_place" /\ resp'.status # "ok")
          => /\ places' = places
             /\ ratings' = ratings
             /\ images' = images]_<<vars, pvars>>

\* C28: an image PUT that reaches the serializer is accepted exactly when
\* every id to delete is an image of the place and the images that stay
\* plus the images uploaded are at most 10; accepted, the place ends with
\* that many images; rejected, no image is deleted or added
C28_ImageUpdateRule ==
    [][(resp'.op = "put_images" /\ resp'.status \notin {"not_found", "forbidden"})
          => LET cur == images[resp'.pk]
                 ids == Range(Val(resp'.images).image_ids_to_delete)
                 total == Cardinality(cur) - Cardinality(ids)
                              + Val(resp'.images).images_to_upload
             IN  /\ resp'.status = "ok" <=> (ids \subseteq cur /\ total <= 10)
                 /\ resp'.status = "ok" =>
                       Cardinality(images'[resp'.pk]) = total
                 /\ resp'.status # "ok" => images' = images]_<<vars, pvars>>

\* C26: on places/new_filter with the filters applied and no distance, the
\* queryset is that of the same request with a distance of 5 km: the
\* places of the user that pass the prefilter, lie within 5 km and pass
\* the category and rating rules
C26_DefaultDistance ==
    (/\ resp.op = "new_filter"
     /\ resp.status = "ok"
     /\ resp.body.apply_filters
     /\ ~Given(resp.body.distance))
        => /\ resp.qs = PlaceFilterNew_queryset(
                            resp.user, [resp.body EXCEPT !.distance = Some(5)])
           /\ resp.qs = {pk \in PlacesOf(resp.user) :
                            /\ dwithin(places[pk].location,
                                       current_point(resp.body), PrefilterDegrees)
                            /\ WithinKm(pk, 5)
                            /\ PassesCategories(pk)
                            /\ PassesRating(pk)}

\* C26 witness: a request without a distance returned a place that lies
\* more than 2 km and less than 5 km from the query point
C26_Witness ==
    /\ resp.op = "new_filter"
    /\ resp.status = "ok"
    /\ resp.body.apply_filters
    /\ ~Given(resp.body.distance)
    /\ \E pk \in resp.qs : ~WithinKm(pk, 2) /\ WithinKm(pk, 5)

(***************************************************************************)
(* Properties of the secrets: what get_or_create returns.                  *)
(***************************************************************************)
\* C29: every call of get_or_create_code and get_or_create_token returns
\* a secret of the generated format that is the secret stored under its
\* key, never None, whatever issue, consume and expiry steps on the key
\* are interleaved with the call
C29_ReturnsStoredSecret ==
    [][\A p \in Procs :
          LET r == proc[p]
              k == IssueKey(r)
          IN  (r.pc \in {"goc_get", "goc_ret"} /\ proc'[p].pc = "idle")
              => /\ hist'[k].given # None
                 /\ hist'[k].given = hist[k].val
                 /\ IF r.op = "send_email"
                    THEN code_format_ok(hist'[k].given)
                    ELSE token_format_ok(hist'[k].given)]_vars

(***************************************************************************)
(* The reset flow, one request at a time: every request is served from     *)
(* its validation to its response before the next one arrives.             *)
(***************************************************************************)
MaxServed == 4

\* mutant: a call that finds a live entry renews its timeout
get_or_create_touching(c, key, generated, timeout) ==
    LET code == CacheGet(c, key)
        added == CacheAdd(c, key, generated, timeout)
    IN  IF code # None
        THEN [cache |-> [c EXCEPT ![key].left = timeout], ret |-> code,
              found |-> TRUE]
        ELSE [cache |-> added, ret |-> CacheGet(added, key), found |-> FALSE]

\* get_or_create_code / get_or_create_token, run without interruption: the
\* cache afterwards, the value returned, and whether an entry was found
get_or_create(c, key, generated, timeout) ==
    LET code == CacheGet(c, key)
        added == CacheAdd(c, key, generated, timeout)
    IN  IF code # None
        THEN [cache |-> c, ret |-> code, found |-> TRUE]
        ELSE [cache |-> added, ret |-> CacheGet(added, key), found |-> FALSE]

\* try_use_code / try_use_token, run without interruption
try_use(c, key, candidate) ==
    IF CacheGet(c, key) # candidate THEN [cache |-> c, ret |-> FALSE]
    ELSE [cache |-> CacheDelete(c, key), ret |-> TRUE]

\* the response to a request served alone
Served(r, ret, sec, found) ==
    [op |-> r.op, email |-> r.email, cand |-> r.cand, ret |-> ret,
     sec |-> sec, found |-> found, stage |-> 0, ok |-> TRUE]

\* History of the key after a call of get_or_create that ended with the
\* cache c: a new entry starts a new history
Issued(r, c, sec) ==
    LET key == IssueKey(r)
    IN  IF c[key] # cache[key]
        THEN [hist EXCEPT ![key] =
                 [val |-> c[key].val, owner |-> r.email, kind |-> IssueKind(r),
                  age |-> 0, uses |-> 0, given |-> sec, spared |-> FALSE]]
        ELSE [hist EXCEPT ![key].given = sec]

\* a request that validation turns away
Refuse(r, reason) ==
    /\ last' = Served(r, reason, None, FALSE)
    /\ UNCHANGED <<cache, users, proc, nreq, hist>>

\* the call of get_or_create that ends a request
Issue(r, c) ==
    \E g \in IssueGen(r) :
        LET out == get_or_create(c, IssueKey(r), g, IssueTTL(r))
        IN  /\ cache' = out.cache
            /\ hist' = Issued(r, out.cache, out.ret)
            /\ last' = Served(r, IssueResult(r), out.ret, out.found)
            /\ nreq' = nreq + 1
            /\ UNCHANGED <<users, proc>>

\* GET reset-password, served alone
serve_send_email(email) ==
    LET r == Request("send_email", email, <<>>, <<>>, <<>>)
    IN  /\ nreq < MaxServed
        /\ IF ~UserExists(normalize_email(email)) THEN Refuse(r, "no_user")
           ELSE Issue(r, cache)

\* the call of try_use that fails
Unused(r) ==
    /\ last' = Served(r, "wrong_secret", None, FALSE)
    /\ nreq' = nreq + 1
    /\ UNCHANGED <<cache, users, proc, hist>>

\* POST reset-password, served alone
serve_send_reset_code(email, code) ==
    LET r == Request("send_reset_code", email, code, <<>>, <<>>)
        used == try_use(cache, UseKey(r), code)
    IN  /\ nreq < MaxServed
        /\ IF ~UserExists(normalize_email(email)) THEN Refuse(r, "no_user")
           ELSE IF ~code_format_ok(code) THEN Refuse(r, "invalid_code")
           ELSE IF ~used.ret THEN Unused(r)
           ELSE \E g \in IssueGen(r) :
                   LET out == get_or_create(used.cache, IssueKey(r), g, IssueTTL(r))
                       used_hist == [hist EXCEPT ![UseKey(r)].uses = @ + 1,
                                                 ![UseKey(r)].given = None]
                   IN  /\ cache' = out.cache
                       /\ hist' = IF out.cache[IssueKey(r)] # cache[IssueKey(r)]
                                  THEN [used_hist EXCEPT ![IssueKey(r)] =
                                           [val |-> out.ret, owner |-> r.email,
                                            kind |-> "token", age |-> 0, uses |-> 0,
                                            given |-> out.ret, spared |-> FALSE]]
                                  ELSE [used_hist EXCEPT ![IssueKey(r)].given = out.ret]
                       /\ last' = Served(r, "ok", out.ret, out.found)
                       /\ nreq' = nreq + 1
                       /\ UNCHANGED <<users, proc>>

\* PATCH reset-password, served alone
serve_change_password(email, session_token, new_password, confirmation_password) ==
    LET r == Request("change_password", email, session_token, new_password,
                     confirmation_password)
        verdict == ChangePasswordForgot_validate(email, session_token,
                                                 new_password, confirmation_password)
        used == try_use(cache, UseKey(r), session_token)
    IN  /\ nreq < MaxServed
        /\ IF verdict # "try_use_token" THEN Refuse(r, verdict)
           ELSE IF ~used.ret THEN Unused(r)
           ELSE /\ cache' = used.cache
                /\ hist' = [hist EXCEPT ![UseKey(r)].uses = @ + 1,
                                        ![UseKey(r)].given = None]
                /\ users' = [users EXCEPT ![normalize_email(email)] =
                                make_password(new_password)]
                /\ last' = Served(r, "ok", None, FALSE)
                /\ nreq' = nreq + 1
                /\ UNCHANGED proc

SeqNext ==
    \/ (\E e \in RequestEmails : serve_send_email(e)) /\ UNCHANGED pvars
    \/ (\E e \in RequestEmails, c \in CodeInputs : serve_send_reset_code(e, c))
       /\ UNCHANGED pvars
    \/ (\E e \in RequestEmails, t \in TokenInputs, pw \in PasswordInputs :
           serve_change_password(e, t, pw[1], pw[2]))
       /\ UNCHANGED pvars
    \/ (nreq < MaxServed /\ Tick) /\ UNCHANGED pvars

SeqSpec == Init /\ [][SeqNext]_vars

\* C24: a send_email, send_reset_code or forgot-flow change_password whose
\* email, normalised, belongs to no user is answered with the validation
\* error of the email and changes nothing in the cache; no key of such an
\* email ever holds an entry
C24_OnlyRegistered ==
    [][/\ (last' # last /\ normalize_email(last'.email) \notin DOMAIN users)
             => /\ last'.ret \in {"no_user", "invalid_password"}
                /\ cache' = cache
                /\ users' = users
       /\ \A e \in RequestEmails :
             normalize_email(e) \notin DOMAIN users
                => /\ cache'[code_key(e)] = NoEntry
                   /\ cache'[token_key(e)] = NoEntry]_vars

\* C24 witness: while a secret of a registered user is live, a send_email
\* for an email without a user was refused
C24_Witness ==
    /\ last.op = "send_email"
    /\ last.email \notin DOMAIN users
    /\ normalize_email(last.email) \notin DOMAIN users
    /\ last.ret = "no_user"
    /\ \E k \in Keys : cache[k] # NoEntry

\* C30: a call of get_or_create that finds a live entry leaves that entry
\* as it is, and every live entry has the TTL of its key less the minutes
\* since it was stored left to live: no entry outlives its TTL
C30_TtlNotExtended ==
    [][/\ (last' # last /\ last'.found)
             => cache'[IssueKey(last')] = cache[IssueKey(last')]
       /\ \A k \in Keys :
             cache'[k] # NoEntry
                => /\ hist'[k].age < KeyTTL(k)
                   /\ cache'[k].left = KeyTTL(k) - hist'[k].age]_vars

\* C30 witness: a second send_reset_code was handed the token that had been
\* stored minutes before, and the token has that much less to live
C30_Witness ==
    /\ last.op = "send_reset_code"
    /\ last.found
    /\ hist[token_key(last.email)].age > 0
    /\ cache[token_key(last.email)] =
          [val |-> last.sec, left |-> TokenTTL - hist[token_key(last.email)].age]

(***************************************************************************)
(* Users: signup, change of email, change of password, profile update.     *)
(* An input is the value of a field after the framework parsed it.         *)
(***************************************************************************)
MaxUserOps == 2

\* max_length=16 of User.phone_number
MaxPhoneLen == 16

PhoneInput == <<"+","1">>
LongPhone == [i \in 1..(MaxPhoneLen + 1) |-> "1"]
NameInput == <<"A","n","n">>
Picture == <<"p","n","g">>

\* <<password, new_password, confirmation_password>> of change-password
OldPasswordInputs == {Absent, Some(OldPassword), Some(NewPassword)}
NewPasswordInputs == {Absent, Some(OldPassword), Some(NewPassword),
                      Some(WeakPassword)}
ConfirmationInputs == {Absent, Some(OldPassword), Some(NewPassword),
                       Some(OtherPassword)}

\* the bodies of PATCH users/settings/
ProfileInputs ==
    [email : {Absent, Some(EmailC)},
     is_premium : {Absent, Some(TRUE)},
     first_name : {Absent, Some(NameInput)},
     last_name : {Absent, Some(NameInput)},
     phone_number : {Absent, Some(PhoneInput), Some(LongPhone)},
     avatar : {Absent, Some(None), Some(Picture)}]

\* the response to a request on users; MaxUserOps requests are served
UserAnswer(op, user, data, status) ==
    /\ nops' = nops + 1
    /\ resp' = [op |-> op, user |-> user, data |-> data, status |-> status]

\* UniqueValidator of User.email: an exact match, the instance excluded
UniqueValidator(email, instance) == email \notin (DOMAIN users \ instance)

\* RegisterUserSerializer: the field validators, then validate
RegisterUser_validate(email, phone_number, password, confirmation_password) ==
    IF ~UniqueValidator(email, {}) THEN "email_taken"
    ELSE IF Given(phone_number) /\ Len(Val(phone_number)) > MaxPhoneLen
    THEN "invalid_phone"
    ELSE IF ~validate_password(password) \/ ~validate_password(confirmation_password)
    THEN "invalid_password"
    ELSE IF password # confirmation_password THEN "mismatch"
    ELSE "ok"

\* UserManager._create_user: the row that user.save() inserts
create_user(email, password, phone_number) ==
    [email |-> normalize_email(email), password |-> make_password(password),
     profile |-> NewProfile(phone_number)]

\* POST auth/signup/: RegisterAPIView.create
signup(email, phone_number, password, confirmation_password) ==
    LET verdict == RegisterUser_validate(email, phone_number, password,
                                         confirmation_password)
        row == create_user(email, password,
                           IF Given(phone_number) THEN Val(phone_number)
                           ELSE DefaultPhone)
        data == [email |-> email, phone_number |-> phone_number,
                 password |-> password,
                 confirmation_password |-> confirmation_password]
    IN  /\ IF verdict # "ok"
           THEN /\ UNCHANGED <<users, profiles>>
                /\ UserAnswer("signup", Absent, data, verdict)
           ELSE IF row.email \in DOMAIN users
           THEN \* unique=True: the INSERT raises IntegrityError
                /\ UNCHANGED <<users, profiles>>
                /\ UserAnswer("signup", Absent, data, "integrity_error")
           ELSE /\ users' = users @@ (row.email :> row.password)
                /\ profiles' = profiles @@ (row.email :> row.profile)
                /\ UserAnswer("signup", Absent, data, "ok")
        /\ UNCHANGED <<places, ratings, images, seqs, ResetVars>>

\* UpdateEmailSerializer.is_valid on {"email": new_email}
UpdateEmail_validate(user, new_email) ==
    IF ~Given(new_email) THEN "invalid_email"
    ELSE IF ~UniqueValidator(Val(new_email), {user}) THEN "email_taken"
    ELSE "ok"

\* ModelSerializer.update: instance.email = email; instance.save()
UpdateEmail_save(table, user, email) ==
    [e \in (DOMAIN table \ {user}) \cup {email} |->
        IF e = email THEN table[user] ELSE table[e]]

\* PATCH auth/change-email/: change_my_email
change_my_email(user, new_email) ==
    LET verdict == UpdateEmail_validate(user, new_email)
    IN  /\ user \in DOMAIN users
        /\ IF verdict # "ok"
           THEN UNCHANGED <<users, profiles>>
           ELSE /\ users' = UpdateEmail_save(users, user, Val(new_email))
                /\ profiles' = UpdateEmail_save(profiles, user, Val(new_email))
        /\ UNCHANGED <<places, ratings, images, seqs, ResetVars>>
        /\ UserAnswer("change_my_email", user, [email |-> new_email], verdict)

\* mutant: the new password is not compared with the current one
ChangePassword_validate_same(instance, password, new_password, confirmation_password) ==
    IF \/ Given(new_password) /\ ~validate_password(Val(new_password))
       \/ Given(confirmation_password)
             /\ ~validate_password(Val(confirmation_password))
    THEN "invalid_password"
    ELSE IF ~Given(password) \/ ~Given(new_password) \/ ~Given(confirmation_password)
    THEN "no_fields"
    ELSE IF ~check_password(Val(password), users[instance]) THEN "wrong_password"
    ELSE IF Val(new_password) # Val(confirmation_password) THEN "mismatch"
    ELSE "ok"

\* ChangePasswordSerializer: the field validators, then validate
ChangePassword_validate(instance, password, new_password, confirmation_password) ==
    IF \/ Given(new_password) /\ ~validate_password(Val(new_password))
       \/ Given(confirmation_password)
             /\ ~validate_password(Val(confirmation_password))
    THEN "invalid_password"
    ELSE IF ~Given(password) \/ ~Given(new_password) \/ ~Given(confirmation_password)
    THEN "no_fields"
    ELSE IF ~check_password(Val(password), users[instance]) THEN "wrong_password"
    ELSE IF check_password(Val(new_password), users[instance]) THEN "same_password"
    ELSE IF Val(new_password) # Val(confirmation_password) THEN "mismatch"
    ELSE "ok"

\* PATCH auth/change-password/: change_my_password
change_my_password(user, password, new_password, confirmation_password) ==
    LET verdict == ChangePassword_validate(user, password, new_password,
                                           confirmation_password)
        data == [password |-> password, new_password |-> new_password,
                 confirmation_password |-> confirmation_password]
    IN  /\ user \in DOMAIN users
        /\ IF verdict # "ok"
           THEN UNCHANGED users
           ELSE users' = [users EXCEPT ![user] = make_password(Val(new_password))]
        /\ UNCHANGED <<profiles, places, ratings, images, seqs, ResetVars>>
        /\ UserAnswer("change_my_password", user, data, verdict)

\* mutant: every field of the body is written
UserInfo_validated_data_all(data) == data

\* UserInfoSerializer: read_only_fields are dropped from the input
UserInfo_validated_data(data) ==
    [data EXCEPT !.email = Absent, !.is_premium = Absent]

\* UserInfoSerializer.is_valid: phone_number has max_length=16
UserInfo_validate(data) ==
    IF Given(data.phone_number) /\ Len(Val(data.phone_number)) > MaxPhoneLen
    THEN "invalid_phone"
    ELSE "ok"

\* the column afterwards: the value the request carries, or the old one
Column(new, old) == IF Given(new) THEN Val(new) ELSE old

\* UserInfoSerializer.save -> ModelSerializer.update: setattr for every
\* validated field, then instance.save()
UserInfo_save(profile, attrs) ==
    [first_name |-> Column(attrs.first_name, profile.first_name),
     last_name |-> Column(attrs.last_name, profile.last_name),
     phone_number |-> Column(attrs.phone_number, profile.phone_number),
     avatar |-> Column(attrs.avatar, profile.avatar),
     is_premium |-> Column(attrs.is_premium, profile.is_premium)]

\* PATCH users/settings/: UserInfoViewSet.partial_update_current
partial_update_current(user, data) ==
    LET verdict == UserInfo_validate(data)
        attrs == UserInfo_validated_data(data)
    IN  /\ user \in DOMAIN users
        /\ IF verdict # "ok"
           THEN UNCHANGED <<users, profiles>>
           ELSE /\ profiles' = [profiles EXCEPT ![user] = UserInfo_save(@, attrs)]
                /\ users' = IF Given(attrs.email)
                            THEN UpdateEmail_save(users, user, Val(attrs.email))
                            ELSE users
        /\ UNCHANGED <<places, ratings, images, seqs, ResetVars>>
        /\ UserAnswer("partial_update_current", user, data, verdict)

UserNext ==
    \/ /\ nops < MaxUserOps
       /\ \E e \in RequestEmails, ph \in {Absent, Some(PhoneInput)},
             pw \in PasswordInputs : signup(e, ph, pw[1], pw[2])
    \/ /\ nops < MaxUserOps
       /\ \E u \in DOMAIN users, e \in {Absent} \cup {Some(x) : x \in RequestEmails} :
             change_my_email(u, e)
    \/ /\ nops < MaxUserOps
       /\ \E u \in DOMAIN users, pw \in OldPasswordInputs,
             npw \in NewPasswordInputs, cpw \in ConfirmationInputs :
             change_my_password(u, pw, npw, cpw)
    \/ /\ nops < MaxUserOps
       /\ \E u \in DOMAIN users, d \in ProfileInputs : partial_update_current(u, d)

UserSpec == Init /\ [][UserNext]_<<vars, pvars>>

\* the emails of the users other than the one who sends the request
OtherEmails(user) == DOMAIN users \ {user}

\* C21: after a signup or a change of email every stored email is in
\* normalised form and no two users have emails of one normalised form; a
\* signup or change of email that names an email whose normalised form is
\* that of another user's email is rejected with a validation error and
\* leaves all users unchanged
C21_UniqueNormalizedEmail ==
    [][(nops' # nops /\ resp'.op \in {"signup", "change_my_email"})
          => /\ \A e \in DOMAIN users' : normalize_email(e) = e
             /\ \A e1, e2 \in DOMAIN users' :
                   normalize_email(e1) = normalize_email(e2) => e1 = e2
             /\ LET named == IF resp'.op = "signup" THEN Some(resp'.data.email)
                             ELSE resp'.data.email
                IN  (/\ Given(named)
                     /\ \E o \in OtherEmails(resp'.user) :
                           normalize_email(o) = normalize_email(Val(named)))
                       => /\ resp'.status = "email_taken"
                          /\ users' = users
                          /\ profiles' = profiles]_<<vars, pvars>>

\* C23: a change of password by a signed-in user succeeds exactly when the
\* three fields are given, password is the current password, new_password
\* is not the current password, new_password equals confirmation_password
\* and new_password passes validate_password; then the stored password is
\* that of new_password, and otherwise the users are unchanged
C23_ChangePasswordExactly ==
    [][(nops' # nops /\ resp'.op = "change_my_password")
          => LET d == resp'.data
                 u == resp'.user
                 accepted ==
                     /\ Given(d.password) /\ Given(d.new_password)
                     /\ Given(d.confirmation_password)
                     /\ users[u] = make_password(Val(d.password))
                     /\ users[u] # make_password(Val(d.new_password))
                     /\ Val(d.new_password) = Val(d.confirmation_password)
                     /\ validate_password(Val(d.new_password))
             IN  /\ (resp'.status = "ok") <=> accepted
                 /\ accepted
                       => users' = [users EXCEPT
                                       ![u] = make_password(Val(d.new_password))]
                 /\ ~accepted => users' = users]_<<vars, pvars>>

C23_Witness ==
    /\ resp.op = "change_my_password"
    /\ resp.status = "ok"
    /\ resp.data.password = Some(NewPassword)
    /\ resp.data.new_password = Some(OldPassword)
    /\ users[resp.user] = make_password(OldPassword)

\* the columns of a profile that a body of PATCH users/settings/ may carry
ProfileFields == {"first_name", "last_name", "phone_number", "avatar"}

\* C25: PATCH users/settings/ changes neither the email nor is_premium of
\* the user, whatever the body carries, leaves every column the body does
\* not carry as it was, and changes no other user
C25_ProfileFrame ==
    [][(nops' # nops /\ resp'.op = "partial_update_current")
          => LET d == resp'.data
                 u == resp'.user
             IN  /\ users' = users
                 /\ DOMAIN profiles' = DOMAIN profiles
                 /\ profiles'[u].is_premium = profiles[u].is_premium
                 /\ \A f \in ProfileFields :
                       ~Given(d[f]) => profiles'[u][f] = profiles[u][f]
                 /\ \A o \in OtherEmails(u) : profiles'[o] = profiles[o]]_<<vars, pvars>>

C25_Witness ==
    /\ resp.op = "partial_update_current"
    /\ resp.status = "ok"
    /\ resp.data.email = Some(EmailC)
    /\ resp.data.is_premium = Some(TRUE)
    /\ ~Given(resp.data.first_name)
    /\ resp.data.avatar = Some(Picture)
    /\ resp.user \in DOMAIN users
    /\ profiles[resp.user].avatar = Picture
    /\ profiles[resp.user].first_name = NameInput
    /\ ~profiles[resp.user].is_premium

====
